---- MODULE Spec2Model ----
(***************************************************************************)
(* The OS thread layer of the Dart VM:                                     *)
(*   runtime/vm/os_thread_win.cc   (Windows backend: Start, ThreadEntry,   *)
(*                                  TLS keys, ThreadLocalData registry,    *)
(*                                  OnDartThreadExit)                      *)
(*   runtime/vm/os_thread_absl.cc  (absl/pthread backend: Start,           *)
(*                                  ThreadStart, UnblockSIGPROF)           *)
(* Two state machines share the module: SpecStart (thread launch, both     *)
(* backends) and SpecTls (the Windows thread-local registry).              *)
(***************************************************************************)
EXTENDS Integers, Sequences, FiniteSets, TLC

(***************************************************************************)
(* Bounds of the model.                                                    *)
(***************************************************************************)
\* number of OSThread::Start calls made by the launcher
MaxStarts == 2

(***************************************************************************)
(* Program constants.                                                      *)
(***************************************************************************)
\* default of FLAG_worker_thread_priority: "leave the OS default"
kMinInt == -2147483647 - 1

NULL == "nullptr"
\* the thread that calls Start, and the native thread created for call c
Launcher == <<"launcher", 0>>
NativeThread(c) == <<"native", c>>
Calls == 1..MaxStarts
\* the launch the program asks for in its c-th call of Start:
\* (name, function, parameter), alternating between two requests
StartRequest(c) ==
  IF c % 2 = 1
    THEN [name |-> "worker1", function |-> "f1", parameter |-> "p1"]
    ELSE [name |-> "worker2", function |-> "f2", parameter |-> "p2"]
\* errno / pthread error numbers the OS can report (EAGAIN, EINVAL)
ErrorCodes == {11, 22}
\* values of --worker_thread_priority: the default, or a configured priority
PriorityFlagValues == {kMinInt, 0}

VARIABLES
  backend,                      \* "win" | "absl": which file is compiled in
  FLAG_worker_thread_priority,  \* DEFINE_FLAG(int, worker_thread_priority, kMinInt, ..)
  launcherBlocksSIGPROF,        \* signal mask of the thread calling Start
  startPc,                      \* position of each OSThread::Start call
  startArgs,                    \* [name, function, parameter] passed to Start
  startRet,                     \* value returned by Start (read once startPc is "returned")
  start_data,                   \* the heap ThreadStartData of each call
  dataLog,                      \* every access to each ThreadStartData, in order
  createRequests,               \* native thread creation requests made per call
  nativeThreads,                \* native threads the OS created per call
  trampPc,                      \* position of each new thread in its trampoline
  trampLocals,                  \* the trampoline's locals name/function/parameter
  osThread,                     \* result of OSThread::CreateOSThread()
  currentSet,                   \* OSThread::SetCurrent(thread) was called
  sigprofBlocked,               \* SIGPROF blocked in the new thread's mask
  priorityCalls,                \* calls of the platform priority API per thread
  entryLog,                     \* entryLog[c]: invocations function(parameter)
                                \* made by the thread of call c
  aborted                       \* FATAL / failed assertion / crash: process gone

startVars == <<backend, FLAG_worker_thread_priority, launcherBlocksSIGPROF,
               startPc, startArgs, startRet, start_data, dataLog,
               createRequests, nativeThreads, trampPc, trampLocals, osThread,
               currentSet, sigprofBlocked, priorityCalls, entryLog>>

\* state of the Windows thread-local registry and of its client threads
VARIABLES
  DEBUG,            \* the build defines DEBUG: ASSERT is compiled in
  private_flag_windows_run_tls_destructors,
  mutex_,           \* Mutex* ThreadLocalData::mutex_
  thread_locals_,   \* MallocGrowableArray<ThreadLocalEntry>* thread_locals_
  mutexAlive,       \* the Mutex object has not been deleted
  mutexOwner,       \* thread holding the Mutex, or NoThread
  arrayAlive,       \* the array object has not been deleted
  entries,          \* contents of the array: sequence of [key, destructor]
  tldPc,            \* position of the VM in ThreadLocalData::Init / Cleanup
  tlsAllocated,     \* TLS indices allocated by TlsAlloc and not yet freed
  tlsValue,         \* the OS TLS slots: tlsValue[thread][key]
  liveKeys,         \* keys returned by CreateThreadLocal and not yet deleted,
                    \* with the destructor they were created with
  precedes,         \* precedes[k]: keys with a destructor that were live when
                    \* the creation of k began and have not been deleted since
  pc,               \* position of each thread
  local,            \* locals of the call a thread is in: key, destructor, i
  reason,           \* DWORD reason of the thread's latest callback invocation
  dtorLog,          \* destructor invocations made on each thread, in order
  suppressed,       \* the thread's latest callback invocation found the
                    \* run-destructors flag false and returned at once
  joined,           \* OSThread::Join on the thread has returned
  processExiting,   \* ExitProcess was called
  creates           \* CreateThreadLocal calls made so far

tlsVars == <<DEBUG, private_flag_windows_run_tls_destructors, mutex_,
             thread_locals_, mutexAlive, mutexOwner, arrayAlive, entries,
             tldPc, tlsAllocated, tlsValue, liveKeys, precedes, pc, local,
             reason, dtorLog, suppressed, joined, processExiting, creates>>

\* state of the calls of OSThread::Join and OSThread::Detach on the threads
\* created by Start
VARIABLES
  joinPc,           \* per Start call: position of the call of Join or Detach
                    \* made with the join id of its thread
  joins             \* Join and Detach calls made so far

joinVars == <<joinPc, joins>>

\* state of a call of OSThread::GetCurrentStackBounds(&lower, &upper)
VARIABLES
  DART_HOST_OS,     \* "windows", "linux", "android" or "macos"
  kWordSize,        \* sizeof(word): 4 or 8
  currentThread,    \* the calling thread: "main", or "started" by Start
  stack,            \* the stack the OS reserved for the calling thread:
                    \* [base, size] in bytes, growing down from base + size
  boundsPc,         \* position of the call
  boundsLocal,      \* locals of the call: attr, base, size, error /
                    \* stack_info.AllocationBase
  lower,            \* the caller's uword lower, "unset" until written
  upper,            \* the caller's uword upper, "unset" until written
  written,          \* the out-parameters the call has stored to
  boundsRet         \* the value returned, "none" until the call returns

stackVars == <<DART_HOST_OS, kWordSize, currentThread, stack, boundsPc,
               boundsLocal, lower, upper, written, boundsRet>>

\* the variables of the machines other than thread launch and the registry
otherVars == <<joinVars, stackVars>>

vars == <<startVars, tlsVars, otherVars, aborted>>

NoData == [state |-> "none", name |-> NULL, function |-> NULL, parameter |-> NULL]
NoLocals == [name |-> NULL, function |-> NULL, parameter |-> NULL]

\* class ThreadStartData: the constructor stores the three fields
ThreadStartData(name, function, parameter) ==
  [state |-> "live", name |-> name, function |-> function,
   parameter |-> parameter]

InitStartVars ==
  /\ backend \in {"win", "absl"}
  /\ FLAG_worker_thread_priority \in PriorityFlagValues
  \* Windows threads have no signal mask
  /\ launcherBlocksSIGPROF \in (IF backend = "win" THEN {FALSE} ELSE BOOLEAN)
  /\ startPc = [c \in Calls |-> "idle"]
  /\ startArgs = [c \in Calls |-> NoLocals]
  /\ startRet = [c \in Calls |-> 0]
  /\ start_data = [c \in Calls |-> NoData]
  /\ dataLog = [c \in Calls |-> <<>>]
  /\ createRequests = [c \in Calls |-> 0]
  /\ nativeThreads = [c \in Calls |-> 0]
  /\ trampPc = [c \in Calls |-> "none"]
  /\ trampLocals = [c \in Calls |-> NoLocals]
  /\ osThread = [c \in Calls |-> "unset"]
  /\ currentSet = [c \in Calls |-> FALSE]
  /\ sigprofBlocked = [c \in Calls |-> FALSE]
  /\ priorityCalls = [c \in Calls |-> 0]
  /\ entryLog = [c \in Calls |-> <<>>]

(***************************************************************************)
(* OSThread::Start.  The launcher makes its calls one after the other;     *)
(* the threads of earlier calls run concurrently with later calls.         *)
(***************************************************************************)
StartCall(c) ==
  /\ ~aborted
  /\ startPc[c] = "idle"
  /\ \A d \in Calls : d < c => startPc[d] = "returned"
  /\ startArgs' = [startArgs EXCEPT ![c] = StartRequest(c)]
  /\ startPc' = [startPc EXCEPT ![c] =
                   IF backend = "win" THEN "new" ELSE "attr_init"]
  /\ UNCHANGED <<tlsVars, otherVars, backend, FLAG_worker_thread_priority,
                 launcherBlocksSIGPROF,
                 startRet, start_data, dataLog, createRequests, nativeThreads,
                 trampPc, trampLocals, osThread, currentSet, sigprofBlocked,
                 priorityCalls, entryLog, aborted>>

\* return <code> from Start
StartReturn(c, code) ==
  /\ startRet' = [startRet EXCEPT ![c] = code]
  /\ startPc' = [startPc EXCEPT ![c] = "returned"]

\* new ThreadStartData(name, function, parameter)  (win:85, absl:136)
Start_new(c) ==
  /\ ~aborted
  /\ startPc[c] = "new"
  /\ start_data' = [start_data EXCEPT ![c] =
       ThreadStartData(startArgs[c].name, startArgs[c].function,
                       startArgs[c].parameter)]
  /\ dataLog' = [dataLog EXCEPT ![c] = Append(@, <<Launcher, "new">>)]
  /\ startPc' = [startPc EXCEPT ![c] = "create"]
  /\ UNCHANGED <<tlsVars, otherVars, backend, FLAG_worker_thread_priority,
                 launcherBlocksSIGPROF,
                 startArgs, startRet, createRequests, nativeThreads, trampPc,
                 trampLocals, osThread, currentSet, sigprofBlocked,
                 priorityCalls, entryLog, aborted>>

\* the OS creates the native thread: it starts in the trampoline with the
\* package as its argument and inherits the creator's signal mask
NativeThreadCreated(c) ==
  /\ nativeThreads' = [nativeThreads EXCEPT ![c] = @ + 1]
  /\ trampPc' = [trampPc EXCEPT ![c] = "priority"]
  /\ sigprofBlocked' = [sigprofBlocked EXCEPT ![c] = launcherBlocksSIGPROF]

\* _beginthreadex(nullptr, GetMaxStackSize(), ThreadEntry, start_data, 0, &tid)
\* and the test of its result
Start_beginthreadex(c) ==
  /\ ~aborted
  /\ backend = "win"
  /\ startPc[c] = "create"
  /\ createRequests' = [createRequests EXCEPT ![c] = @ + 1]
  /\ \/ /\ NativeThreadCreated(c)
        /\ startPc' = [startPc EXCEPT ![c] = "CloseHandle"]
        /\ UNCHANGED startRet
     \/ /\ \E errno \in ErrorCodes : StartReturn(c, errno)
        /\ UNCHANGED <<nativeThreads, trampPc, sigprofBlocked>>
  /\ UNCHANGED <<tlsVars, otherVars, backend, FLAG_worker_thread_priority,
                 launcherBlocksSIGPROF,
                 startArgs, start_data, dataLog, trampLocals, osThread,
                 currentSet, priorityCalls, entryLog, aborted>>

\* CloseHandle(thread); return 0;
Start_CloseHandle(c) ==
  /\ ~aborted
  /\ backend = "win"
  /\ startPc[c] = "CloseHandle"
  /\ StartReturn(c, 0)
  /\ UNCHANGED <<tlsVars, otherVars, backend, FLAG_worker_thread_priority,
                 launcherBlocksSIGPROF,
                 startArgs, start_data, dataLog, createRequests, nativeThreads,
                 trampPc, trampLocals, osThread, currentSet, sigprofBlocked,
                 priorityCalls, entryLog, aborted>>

\* a pthread call that creates no thread, followed by
\* RETURN_ON_PTHREAD_FAILURE(result)
Start_pthread_step(c, at, next) ==
  /\ ~aborted
  /\ startPc[c] = at
  /\ \E result \in {0} \cup ErrorCodes :
       IF result # 0
         THEN StartReturn(c, result)
         ELSE IF next = "return"
                THEN StartReturn(c, 0)
                ELSE /\ startPc' = [startPc EXCEPT ![c] = next]
                     /\ UNCHANGED startRet
  /\ UNCHANGED <<tlsVars, otherVars, backend, FLAG_worker_thread_priority,
                 launcherBlocksSIGPROF,
                 startArgs, start_data, dataLog, createRequests, nativeThreads,
                 trampPc, trampLocals, osThread, currentSet, sigprofBlocked,
                 priorityCalls, entryLog, aborted>>

\* result = pthread_attr_init(&attr); RETURN_ON_PTHREAD_FAILURE(result);
Start_pthread_attr_init(c) ==
  /\ backend = "absl"
  /\ Start_pthread_step(c, "attr_init", "attr_setstacksize")

\* result = pthread_attr_setstacksize(&attr, GetMaxStackSize()); RETURN_ON_..
Start_pthread_attr_setstacksize(c) ==
  /\ backend = "absl"
  /\ Start_pthread_step(c, "attr_setstacksize", "new")

\* result = pthread_create(&tid, &attr, ThreadStart, data); RETURN_ON_..
Start_pthread_create(c) ==
  /\ ~aborted
  /\ backend = "absl"
  /\ startPc[c] = "create"
  /\ createRequests' = [createRequests EXCEPT ![c] = @ + 1]
  /\ \/ /\ NativeThreadCreated(c)
        /\ startPc' = [startPc EXCEPT ![c] = "attr_destroy"]
        /\ UNCHANGED startRet
     \/ /\ \E result \in ErrorCodes : StartReturn(c, result)
        /\ UNCHANGED <<nativeThreads, trampPc, sigprofBlocked>>
  /\ UNCHANGED <<tlsVars, otherVars, backend, FLAG_worker_thread_priority,
                 launcherBlocksSIGPROF,
                 startArgs, start_data, dataLog, trampLocals, osThread,
                 currentSet, priorityCalls, entryLog, aborted>>

\* result = pthread_attr_destroy(&attr); RETURN_ON_..; return 0;
Start_pthread_attr_destroy(c) ==
  /\ backend = "absl"
  /\ Start_pthread_step(c, "attr_destroy", "return")

(***************************************************************************)
(* The trampoline: ThreadEntry (Windows) and ThreadStart (absl).           *)
(***************************************************************************)
\* a trampoline that sets the priority whatever the flag's value
PriorityConfigured_Always == TRUE

\* if (FLAG_worker_thread_priority != kMinInt)
PriorityConfigured == FLAG_worker_thread_priority # kMinInt

\* if (FLAG_worker_thread_priority != kMinInt) { if (<set priority> fails)
\*   FATAL(..) }
Trampoline_priority(c) ==
  /\ ~aborted
  /\ trampPc[c] = "priority"
  /\ IF PriorityConfigured
       THEN /\ priorityCalls' = [priorityCalls EXCEPT ![c] = @ + 1]
            /\ \E ok \in BOOLEAN :
                 IF ok
                   THEN /\ trampPc' = [trampPc EXCEPT ![c] = "extract"]
                        /\ UNCHANGED aborted
                   ELSE /\ aborted' = TRUE
                        /\ UNCHANGED trampPc
       ELSE /\ trampPc' = [trampPc EXCEPT ![c] = "extract"]
            /\ UNCHANGED <<priorityCalls, aborted>>
  /\ UNCHANGED <<tlsVars, otherVars, backend, FLAG_worker_thread_priority,
                 launcherBlocksSIGPROF,
                 startPc, startArgs, startRet, start_data, dataLog,
                 createRequests, nativeThreads, trampLocals, osThread,
                 currentSet, sigprofBlocked, entryLog>>

\* name = data->name(); function = data->function();
\* parameter = data->parameter();
Trampoline_extract(c) ==
  /\ ~aborted
  /\ trampPc[c] = "extract"
  /\ trampLocals' = [trampLocals EXCEPT ![c] =
       [name |-> start_data[c].name, function |-> start_data[c].function,
        parameter |-> start_data[c].parameter]]
  /\ dataLog' = [dataLog EXCEPT ![c] =
       @ \o << <<NativeThread(c), "name">>, <<NativeThread(c), "function">>,
              <<NativeThread(c), "parameter">> >>]
  /\ trampPc' = [trampPc EXCEPT ![c] = "delete"]
  /\ UNCHANGED <<tlsVars, otherVars, backend, FLAG_worker_thread_priority,
                 launcherBlocksSIGPROF,
                 startPc, startArgs, startRet, start_data, createRequests,
                 nativeThreads, osThread, currentSet, sigprofBlocked,
                 priorityCalls, entryLog, aborted>>

\* a trampoline that forgets `delete data`
Trampoline_delete_Omitted(c) ==
  /\ ~aborted
  /\ trampPc[c] = "delete"
  /\ trampPc' = [trampPc EXCEPT ![c] = "CreateOSThread"]
  /\ UNCHANGED <<tlsVars, otherVars, backend, FLAG_worker_thread_priority,
                 launcherBlocksSIGPROF, startPc, startArgs, startRet,
                 start_data, dataLog, createRequests, nativeThreads,
                 trampLocals, osThread, currentSet, sigprofBlocked,
                 priorityCalls, entryLog, aborted>>

\* delete data;
Trampoline_delete(c) ==
  /\ ~aborted
  /\ trampPc[c] = "delete"
  /\ start_data' = [start_data EXCEPT ![c].state = "freed"]
  /\ dataLog' = [dataLog EXCEPT ![c] = Append(@, <<NativeThread(c), "delete">>)]
  /\ trampPc' = [trampPc EXCEPT ![c] = "CreateOSThread"]
  /\ UNCHANGED <<tlsVars, otherVars, backend, FLAG_worker_thread_priority,
                 launcherBlocksSIGPROF,
                 startPc, startArgs, startRet, createRequests, nativeThreads,
                 trampLocals, osThread, currentSet, sigprofBlocked,
                 priorityCalls, entryLog, aborted>>

\* a trampoline that uses the OSThread without testing it
AfterCreateOSThread_NoNullTest(thread) == "SetCurrent"

\* if (thread != nullptr) { SetCurrent .. function(parameter) } return 0;
AfterCreateOSThread(thread) ==
  IF thread # NULL THEN "SetCurrent" ELSE "returned"

\* (absl: pthread_setname_np with the truncated name, then)
\* OSThread* thread = OSThread::CreateOSThread();
\* if (thread != nullptr) {..} return 0;
Trampoline_CreateOSThread(c) ==
  /\ ~aborted
  /\ trampPc[c] = "CreateOSThread"
  /\ \E thread \in {NULL, "OSThread"} :
       /\ osThread' = [osThread EXCEPT ![c] = thread]
       /\ trampPc' = [trampPc EXCEPT ![c] = AfterCreateOSThread(thread)]
  /\ UNCHANGED <<tlsVars, otherVars, backend, FLAG_worker_thread_priority,
                 launcherBlocksSIGPROF,
                 startPc, startArgs, startRet, start_data, dataLog,
                 createRequests, nativeThreads, trampLocals, currentSet,
                 sigprofBlocked, priorityCalls, entryLog, aborted>>

\* an UnblockSIGPROF that leaves the signal mask as inherited
UnblockSIGPROF_MaskKept(blocked) == blocked

\* static void UnblockSIGPROF(): pthread_sigmask(SIG_UNBLOCK, {SIGPROF}, nullptr)
UnblockSIGPROF(blocked) == FALSE

\* OSThread::SetCurrent(thread); thread->SetName(name);
\* (absl only: UnblockSIGPROF();)
Trampoline_SetCurrent(c) ==
  /\ ~aborted
  /\ trampPc[c] = "SetCurrent"
  /\ currentSet' = [currentSet EXCEPT ![c] = TRUE]
  /\ sigprofBlocked' = [sigprofBlocked EXCEPT ![c] =
       IF backend = "absl" THEN UnblockSIGPROF(@) ELSE @]
  /\ trampPc' = [trampPc EXCEPT ![c] = "call"]
  /\ UNCHANGED <<tlsVars, otherVars, backend, FLAG_worker_thread_priority,
                 launcherBlocksSIGPROF,
                 startPc, startArgs, startRet, start_data, dataLog,
                 createRequests, nativeThreads, trampLocals, osThread,
                 priorityCalls, entryLog, aborted>>

\* a trampoline that sets the thread up and returns without calling
\* function(parameter)
Trampoline_call_Skipped(c) ==
  /\ ~aborted
  /\ trampPc[c] = "call"
  /\ trampPc' = [trampPc EXCEPT ![c] = "in_function"]
  /\ UNCHANGED <<tlsVars, otherVars, backend, FLAG_worker_thread_priority,
                 launcherBlocksSIGPROF, startPc, startArgs, startRet,
                 start_data, dataLog, createRequests, nativeThreads,
                 trampLocals, osThread, currentSet, sigprofBlocked,
                 priorityCalls, entryLog, aborted>>

\* function(parameter);
Trampoline_call(c) ==
  /\ ~aborted
  /\ trampPc[c] = "call"
  /\ entryLog' = [entryLog EXCEPT ![c] = Append(@,
       [thread |-> NativeThread(c), function |-> trampLocals[c].function,
        parameter |-> trampLocals[c].parameter,
        sigprofBlocked |-> sigprofBlocked[c],
        data |-> start_data[c].state])]
  /\ trampPc' = [trampPc EXCEPT ![c] = "in_function"]
  /\ UNCHANGED <<tlsVars, otherVars, backend, FLAG_worker_thread_priority,
                 launcherBlocksSIGPROF,
                 startPc, startArgs, startRet, start_data, dataLog,
                 createRequests, nativeThreads, trampLocals, osThread,
                 currentSet, sigprofBlocked, priorityCalls, aborted>>

\* function returns; return 0 / return nullptr: the native thread ends
Trampoline_return(c) ==
  /\ ~aborted
  /\ trampPc[c] = "in_function"
  /\ trampPc' = [trampPc EXCEPT ![c] = "returned"]
  /\ UNCHANGED <<tlsVars, otherVars, backend, FLAG_worker_thread_priority,
                 launcherBlocksSIGPROF,
                 startPc, startArgs, startRet, start_data, dataLog,
                 createRequests, nativeThreads, trampLocals, osThread,
                 currentSet, sigprofBlocked, priorityCalls, entryLog, aborted>>

\* static unsigned int __stdcall ThreadEntry(void* data_ptr)
ThreadEntry(c) ==
  \/ backend = "win" /\ Trampoline_priority(c)
  \/ backend = "win" /\ Trampoline_extract(c)
  \/ backend = "win" /\ Trampoline_delete(c)
  \/ backend = "win" /\ Trampoline_CreateOSThread(c)
  \/ backend = "win" /\ Trampoline_SetCurrent(c)
  \/ backend = "win" /\ Trampoline_call(c)
  \/ backend = "win" /\ Trampoline_return(c)

\* static void* ThreadStart(void* data_ptr)
ThreadStart(c) ==
  \/ backend = "absl" /\ Trampoline_priority(c)
  \/ backend = "absl" /\ Trampoline_extract(c)
  \/ backend = "absl" /\ Trampoline_delete(c)
  \/ backend = "absl" /\ Trampoline_CreateOSThread(c)
  \/ backend = "absl" /\ Trampoline_SetCurrent(c)
  \/ backend = "absl" /\ Trampoline_call(c)
  \/ backend = "absl" /\ Trampoline_return(c)

\* int OSThread::Start(name, function, parameter)
Start(c) ==
  \/ StartCall(c)
  \/ Start_new(c)
  \/ Start_beginthreadex(c)
  \/ Start_CloseHandle(c)
  \/ Start_pthread_attr_init(c)
  \/ Start_pthread_attr_setstacksize(c)
  \/ Start_pthread_create(c)
  \/ Start_pthread_attr_destroy(c)

(***************************************************************************)
(* OSThread::Join and OSThread::Detach, called with the join id of a       *)
(* thread created by Start.                                                *)
(***************************************************************************)
\* number of Join and Detach calls made in one run
MaxJoins == 2

\* the time-out intervals of a wait
INFINITE == "INFINITE"
NoWait == "0"
WAIT_OBJECT_0 == "WAIT_OBJECT_0"
WAIT_TIMEOUT == "WAIT_TIMEOUT"

JoinIdle ==
  /\ joinPc = [c \in Calls |-> "none"]
  /\ joins = 0

\* the thread of call c has terminated: its start routine has returned
ThreadTerminated(c) == trampPc[c] = "returned"

\* GetCurrentThreadJoinId(thread) is called by the thread itself with its
\* OSThread: a join id of the thread of call c exists once the thread has an
\* OSThread, and it is passed to one call of Join or Detach
HasJoinId(c) ==
  /\ currentSet[c]
  /\ joinPc[c] = "none"
  /\ joins < MaxJoins

\* WaitForSingleObject(handle, dwMilliseconds) on the handle of the thread of
\* call c: the results it can return with now (none: the caller stays blocked)
WaitForSingleObject(c, dwMilliseconds) ==
  IF ThreadTerminated(c)
    THEN {WAIT_OBJECT_0}
    ELSE IF dwMilliseconds = INFINITE THEN {} ELSE {WAIT_TIMEOUT}

\* pthread_join(id, nullptr) on the thread of call c: the results it can
\* return with now (none: the caller stays blocked)
pthread_join(c) == IF ThreadTerminated(c) THEN {0} ELSE {}

\* void OSThread::Join(ThreadJoinId id): the call, up to the wait
Join_call(c) ==
  /\ ~aborted
  /\ HasJoinId(c)
  /\ joinPc' = [joinPc EXCEPT ![c] = "Join_wait"]
  /\ joins' = joins + 1
  /\ UNCHANGED <<startVars, tlsVars, stackVars, aborted>>

\* the wait of Join has returned with `res`: ASSERT(res == expected); return
Join_return(c, res, expected) ==
  IF DEBUG /\ res # expected
    THEN /\ aborted' = TRUE
         /\ UNCHANGED joinPc
    ELSE /\ joinPc' = [joinPc EXCEPT ![c] = "joined"]
         /\ UNCHANGED aborted

\* a Join that waits with a zero timeout
Join_WaitForSingleObject_Polling(c) ==
  /\ ~aborted
  /\ backend = "win"
  /\ joinPc[c] = "Join_wait"
  /\ \E res \in WaitForSingleObject(c, NoWait) : Join_return(c, res, WAIT_OBJECT_0)
  /\ UNCHANGED <<startVars, tlsVars, stackVars, joins>>

\* DWORD res = WaitForSingleObject(handle, INFINITE); CloseHandle(handle);
\* ASSERT(res == WAIT_OBJECT_0);
Join_WaitForSingleObject(c) ==
  /\ ~aborted
  /\ backend = "win"
  /\ joinPc[c] = "Join_wait"
  /\ \E res \in WaitForSingleObject(c, INFINITE) :
       Join_return(c, res, WAIT_OBJECT_0)
  /\ UNCHANGED <<startVars, tlsVars, stackVars, joins>>

\* int result = pthread_join(id, nullptr); ASSERT(result == 0);
Join_pthread_join(c) ==
  /\ ~aborted
  /\ backend = "absl"
  /\ joinPc[c] = "Join_wait"
  /\ \E result \in pthread_join(c) : Join_return(c, result, 0)
  /\ UNCHANGED <<startVars, tlsVars, stackVars, joins>>

\* void OSThread::Join(ThreadJoinId id)
OSThread_Join(c) ==
  \/ Join_call(c)
  \/ Join_WaitForSingleObject(c)
  \/ Join_pthread_join(c)

\* void OSThread::Detach(ThreadJoinId id): CloseHandle(handle) on Windows,
\* pthread_detach(id) with its result validated on the pthread backend
OSThread_Detach(c) ==
  /\ ~aborted
  /\ HasJoinId(c)
  /\ joinPc' = [joinPc EXCEPT ![c] = "detached"]
  /\ joins' = joins + 1
  /\ UNCHANGED <<startVars, tlsVars, stackVars, aborted>>

(***************************************************************************)
(* OSThread::GetMaxStackSize and OSThread::GetCurrentStackBounds.          *)
(* Addresses and sizes are in bytes.  A stack lies inside the address      *)
(* space, so base + size does not wrap around in uword arithmetic.         *)
(***************************************************************************)
KB == 1024
\* 0x1000, the size of a page
kPageSize == 4096
Unset == "unset"
NoBoundsLocal == [attr |-> Unset, base |-> 0, size |-> 0, AllocationBase |-> 0]

\* const int kStackSize = (128 * kWordSize * KB); return kStackSize;
GetMaxStackSize == 128 * kWordSize * KB

\* the addresses at which the OS can place a stack
StackBases == {64 * KB, 4096 * KB, 1024 * 1024 * KB}

\* the sizes of the stack the OS can reserve for a thread: Start asks for
\* GetMaxStackSize() and gets at least that; the main thread's stack is
\* sized by the executable or the resource limit
StackSizes(thread) ==
  IF thread = "started"
    THEN {GetMaxStackSize, GetMaxStackSize + 64 * KB, 2 * GetMaxStackSize}
    ELSE {64 * KB, 1024 * KB, 8 * 1024 * KB}

StackInputs ==
  /\ DART_HOST_OS \in (IF backend = "win" THEN {"windows"}
                       ELSE {"linux", "android", "macos"})
  /\ kWordSize \in {4, 8}
  /\ currentThread \in {"main", "started"}
  /\ stack \in [base : StackBases, size : StackSizes(currentThread)]
  /\ boundsPc = "idle"
  /\ boundsLocal = NoBoundsLocal
  /\ lower = Unset
  /\ upper = Unset
  /\ written = {}
  /\ boundsRet = "none"

StackIdle ==
  /\ DART_HOST_OS = "windows"
  /\ kWordSize = 8
  /\ currentThread = "main"
  /\ stack = [base |-> 64 * KB, size |-> 1024 * KB]
  /\ boundsPc = "idle"
  /\ boundsLocal = NoBoundsLocal
  /\ lower = Unset
  /\ upper = Unset
  /\ written = {}
  /\ boundsRet = "none"

\* return `value`;
Bounds_return(value) ==
  /\ boundsRet' = value
  /\ boundsPc' = "returned"

\* the program calls OSThread::GetCurrentStackBounds(&lower, &upper)
GetCurrentStackBounds_call ==
  /\ ~aborted
  /\ boundsPc = "idle"
  /\ boundsPc' = (CASE DART_HOST_OS = "windows" -> "tib"
                    [] DART_HOST_OS = "macos" -> "pthread_get_stackaddr_np"
                    [] OTHER -> "pthread_getattr_np")
  /\ UNCHANGED <<startVars, tlsVars, joinVars, DART_HOST_OS, kWordSize,
                 currentThread, stack, boundsLocal, lower, upper, written,
                 boundsRet, aborted>>

\* NT_TIB* tib = NtCurrentTeb(); *upper = tib->StackBase;
GetCurrentStackBounds_tib ==
  /\ ~aborted
  /\ boundsPc = "tib"
  /\ upper' = stack.base + stack.size
  /\ written' = written \cup {"upper"}
  /\ boundsPc' = "VirtualQuery"
  /\ UNCHANGED <<startVars, tlsVars, joinVars, DART_HOST_OS, kWordSize,
                 currentThread, stack, boundsLocal, lower, boundsRet, aborted>>

\* memset(&stack_info, 0, ..); VirtualQuery(&stack_info, &stack_info, ..);
\* ASSERT(result_size >= sizeof(MEMORY_BASIC_INFORMATION));
\* stack_info is a local of the calling thread, so the region queried is the
\* thread's own stack reservation
GetCurrentStackBounds_VirtualQuery ==
  /\ ~aborted
  /\ boundsPc = "VirtualQuery"
  /\ boundsLocal' = [boundsLocal EXCEPT !.AllocationBase = stack.base]
  /\ boundsPc' = "lower"
  /\ UNCHANGED <<startVars, tlsVars, joinVars, DART_HOST_OS, kWordSize,
                 currentThread, stack, lower, upper, written, boundsRet,
                 aborted>>

\* a GetCurrentStackBounds that reports the allocation base as the lower
\* bound
Bounds_skip_pages_None(allocationBase) == allocationBase

\* *lower += 4 * 0x1000;
Bounds_skip_pages(allocationBase) == allocationBase + 4 * kPageSize

\* *lower = stack_info.AllocationBase; ASSERT(*upper > *lower);
\* ASSERT((*upper - *lower) >= (4u * 0x1000)); *lower += 4 * 0x1000;
\* return true;
GetCurrentStackBounds_lower ==
  /\ ~aborted
  /\ boundsPc = "lower"
  /\ IF DEBUG /\ ~(/\ upper > boundsLocal.AllocationBase
                   /\ upper - boundsLocal.AllocationBase >= 4 * kPageSize)
       THEN /\ aborted' = TRUE
            /\ lower' = boundsLocal.AllocationBase
            /\ UNCHANGED <<boundsPc, boundsRet>>
       ELSE /\ lower' = Bounds_skip_pages(boundsLocal.AllocationBase)
            /\ Bounds_return(TRUE)
            /\ UNCHANGED aborted
  /\ written' = written \cup {"lower"}
  /\ UNCHANGED <<startVars, tlsVars, joinVars, DART_HOST_OS, kWordSize,
                 currentThread, stack, boundsLocal, upper>>

\* a GetCurrentStackBounds that zeroes the bounds when the attributes are not
\* available
Bounds_fail_Zeroes ==
  /\ lower' = 0
  /\ upper' = 0
  /\ written' = written \cup {"lower", "upper"}
  /\ Bounds_return(FALSE)

\* return false;
Bounds_fail ==
  /\ Bounds_return(FALSE)
  /\ UNCHANGED <<lower, upper, written>>

\* if (pthread_getattr_np(pthread_self(), &attr) != 0) { return false; }
\* "May fail on the main thread."
GetCurrentStackBounds_pthread_getattr_np ==
  /\ ~aborted
  /\ boundsPc = "pthread_getattr_np"
  /\ \E result \in {0} \cup ErrorCodes :
       IF result # 0
         THEN /\ Bounds_fail
              /\ boundsLocal' = [boundsLocal EXCEPT !.attr = "failed"]
         ELSE /\ boundsLocal' = [boundsLocal EXCEPT !.attr = "initialized"]
              /\ boundsPc' = "pthread_attr_getstack"
              /\ UNCHANGED <<lower, upper, written, boundsRet>>
  /\ UNCHANGED <<startVars, tlsVars, joinVars, DART_HOST_OS, kWordSize,
                 currentThread, stack, aborted>>

\* int error = pthread_attr_getstack(&attr, &base, &size);
\* pthread_attr_destroy(&attr); if (error != 0) { return false; }
GetCurrentStackBounds_pthread_attr_getstack ==
  /\ ~aborted
  /\ boundsPc = "pthread_attr_getstack"
  /\ \E error \in {0} \cup ErrorCodes :
       IF error # 0
         THEN /\ Bounds_fail
              /\ boundsLocal' = [boundsLocal EXCEPT !.attr = "failed"]
         ELSE /\ boundsLocal' = [boundsLocal EXCEPT !.attr = "destroyed",
                                   !.base = stack.base, !.size = stack.size]
              /\ boundsPc' = "store"
              /\ UNCHANGED <<lower, upper, written, boundsRet>>
  /\ UNCHANGED <<startVars, tlsVars, joinVars, DART_HOST_OS, kWordSize,
                 currentThread, stack, aborted>>

\* *lower = reinterpret_cast<uword>(base); *upper = *lower + size;
\* return true;
GetCurrentStackBounds_store ==
  /\ ~aborted
  /\ boundsPc = "store"
  /\ lower' = boundsLocal.base
  /\ upper' = boundsLocal.base + boundsLocal.size
  /\ written' = written \cup {"lower", "upper"}
  /\ Bounds_return(TRUE)
  /\ UNCHANGED <<startVars, tlsVars, joinVars, DART_HOST_OS, kWordSize,
                 currentThread, stack, boundsLocal, aborted>>

\* *upper = pthread_get_stackaddr_np(pthread_self());
\* *lower = *upper - pthread_get_stacksize_np(pthread_self()); return true;
GetCurrentStackBounds_macos ==
  /\ ~aborted
  /\ boundsPc = "pthread_get_stackaddr_np"
  /\ upper' = stack.base + stack.size
  /\ lower' = (stack.base + stack.size) - stack.size
  /\ written' = written \cup {"lower", "upper"}
  /\ Bounds_return(TRUE)
  /\ UNCHANGED <<startVars, tlsVars, joinVars, DART_HOST_OS, kWordSize,
                 currentThread, stack, boundsLocal, aborted>>

\* bool OSThread::GetCurrentStackBounds(uword* lower, uword* upper)
GetCurrentStackBounds ==
  \/ GetCurrentStackBounds_call
  \/ GetCurrentStackBounds_tib
  \/ GetCurrentStackBounds_VirtualQuery
  \/ GetCurrentStackBounds_lower
  \/ GetCurrentStackBounds_pthread_getattr_np
  \/ GetCurrentStackBounds_pthread_attr_getstack
  \/ GetCurrentStackBounds_store
  \/ GetCurrentStackBounds_macos

(***************************************************************************)
(* Windows thread-local storage: OSThread::CreateThreadLocal /             *)
(* DeleteThreadLocal / SetThreadLocal, the ThreadLocalData registry and    *)
(* the loader callback OnDartThreadExit.                                   *)
(***************************************************************************)
\* number of CreateThreadLocal calls made in one run
MaxCreates == 3

Threads == {"t1", "t2"}
\* the TLS indices the OS hands out
Keys == {1, 2}
\* the non-null value a thread stores in its slots (a pointer to an object
\* it owns); 0 is the empty slot
OwnValue(t) == IF t = "t1" THEN 1 ELSE 2
\* the destructor a thread passes to CreateThreadLocal when it passes one
OwnDestructor(t) == IF t = "t1" THEN "D1" ELSE "D2"
Destructors == {OwnDestructor(t) : t \in Threads}
NoThread == "none"
DLL_PROCESS_ATTACH == "DLL_PROCESS_ATTACH"
DLL_THREAD_ATTACH == "DLL_THREAD_ATTACH"
DLL_THREAD_DETACH == "DLL_THREAD_DETACH"
DLL_PROCESS_DETACH == "DLL_PROCESS_DETACH"
AttachReasons == {DLL_PROCESS_ATTACH, DLL_THREAD_ATTACH}

NotLive == "not_live"
NoLocal == [key |-> 0, destructor |-> NULL, i |-> 0]

\* class ThreadLocalEntry
ThreadLocalEntry(key, destructor) == [key |-> key, destructor |-> destructor]

InitTlsVars ==
  /\ DEBUG \in BOOLEAN
  \* bool private_flag_windows_run_tls_destructors = true;
  /\ private_flag_windows_run_tls_destructors = TRUE
  \* Mutex* ThreadLocalData::mutex_ = nullptr; thread_locals_ = nullptr;
  /\ mutex_ = NULL
  /\ thread_locals_ = NULL
  /\ mutexAlive = FALSE
  /\ mutexOwner = NoThread
  /\ arrayAlive = FALSE
  /\ entries = <<>>
  /\ tldPc = "uninit"
  /\ tlsAllocated = {}
  /\ tlsValue = [t \in Threads |-> [k \in Keys |-> 0]]
  /\ liveKeys = [k \in Keys |-> NotLive]
  /\ precedes = [k \in Keys |-> {}]
  /\ pc = [t \in Threads |-> "new"]
  /\ local = [t \in Threads |-> NoLocal]
  /\ reason = [t \in Threads |-> DLL_THREAD_ATTACH]
  /\ dtorLog = [t \in Threads |-> <<>>]
  /\ suppressed = [t \in Threads |-> FALSE]
  /\ joined = [t \in Threads |-> FALSE]
  /\ processExiting = FALSE
  /\ creates = 0

(***************************************************************************)
(* ThreadLocalData::Init and ThreadLocalData::Cleanup, run by the VM.      *)
(***************************************************************************)
\* mutex_ = new Mutex();
Init_mutex ==
  /\ ~aborted /\ ~processExiting
  /\ tldPc = "uninit"
  /\ mutex_' = "Mutex"
  /\ mutexAlive' = TRUE
  /\ mutexOwner' = NoThread
  /\ tldPc' = "Init_thread_locals"
  /\ UNCHANGED <<startVars, otherVars, DEBUG, private_flag_windows_run_tls_destructors,
                 thread_locals_, arrayAlive, entries, tlsAllocated, tlsValue,
                 liveKeys, precedes, pc, local, reason, dtorLog, suppressed,
                 joined, processExiting, creates, aborted>>

\* thread_locals_ = new MallocGrowableArray<ThreadLocalEntry>();
Init_thread_locals ==
  /\ ~aborted /\ ~processExiting
  /\ tldPc = "Init_thread_locals"
  /\ thread_locals_' = "Array"
  /\ arrayAlive' = TRUE
  /\ entries' = <<>>
  /\ tldPc' = "ready"
  /\ UNCHANGED <<startVars, otherVars, DEBUG, private_flag_windows_run_tls_destructors, mutex_,
                 mutexAlive, mutexOwner, tlsAllocated, tlsValue, liveKeys,
                 precedes, pc, local, reason, dtorLog, suppressed, joined,
                 processExiting, creates, aborted>>

\* void ThreadLocalData::Init()
Init == Init_mutex \/ Init_thread_locals

\* if (mutex_ != nullptr) { delete mutex_; ..
Cleanup_delete_mutex ==
  /\ ~aborted /\ ~processExiting
  /\ tldPc = "ready"
  /\ IF mutex_ # NULL
       THEN /\ mutexAlive' = FALSE
            /\ tldPc' = "Cleanup_null_mutex"
       ELSE /\ tldPc' = "Cleanup_thread_locals"
            /\ UNCHANGED mutexAlive
  /\ UNCHANGED <<startVars, otherVars, DEBUG, private_flag_windows_run_tls_destructors, mutex_,
                 thread_locals_, mutexOwner, arrayAlive, entries, tlsAllocated,
                 tlsValue, liveKeys, precedes, pc, local, reason, dtorLog,
                 suppressed, joined, processExiting, creates, aborted>>

\* .. mutex_ = nullptr; }
Cleanup_null_mutex ==
  /\ ~aborted /\ ~processExiting
  /\ tldPc = "Cleanup_null_mutex"
  /\ mutex_' = NULL
  /\ tldPc' = "Cleanup_thread_locals"
  /\ UNCHANGED <<startVars, otherVars, DEBUG, private_flag_windows_run_tls_destructors,
                 thread_locals_, mutexAlive, mutexOwner, arrayAlive, entries,
                 tlsAllocated, tlsValue, liveKeys, precedes, pc, local, reason,
                 dtorLog, suppressed, joined, processExiting, creates, aborted>>

\* if (thread_locals_ != nullptr) { delete thread_locals_; ..
Cleanup_delete_thread_locals ==
  /\ ~aborted /\ ~processExiting
  /\ tldPc = "Cleanup_thread_locals"
  /\ IF thread_locals_ # NULL
       THEN /\ arrayAlive' = FALSE
            /\ tldPc' = "Cleanup_null_thread_locals"
       ELSE /\ tldPc' = "cleaned"
            /\ UNCHANGED arrayAlive
  /\ UNCHANGED <<startVars, otherVars, DEBUG, private_flag_windows_run_tls_destructors, mutex_,
                 thread_locals_, mutexAlive, mutexOwner, entries, tlsAllocated,
                 tlsValue, liveKeys, precedes, pc, local, reason, dtorLog,
                 suppressed, joined, processExiting, creates, aborted>>

\* .. thread_locals_ = nullptr; }
Cleanup_null_thread_locals ==
  /\ ~aborted /\ ~processExiting
  /\ tldPc = "Cleanup_null_thread_locals"
  /\ thread_locals_' = NULL
  /\ tldPc' = "cleaned"
  /\ UNCHANGED <<startVars, otherVars, DEBUG, private_flag_windows_run_tls_destructors, mutex_,
                 mutexAlive, mutexOwner, arrayAlive, entries, tlsAllocated,
                 tlsValue, liveKeys, precedes, pc, local, reason, dtorLog,
                 suppressed, joined, processExiting, creates, aborted>>

\* void ThreadLocalData::Cleanup()
Cleanup ==
  \/ Cleanup_delete_mutex
  \/ Cleanup_null_mutex
  \/ Cleanup_delete_thread_locals
  \/ Cleanup_null_thread_locals

\* "This flag is flipped by platform_win.cc when the process is exiting."
FlipRunTlsDestructors ==
  /\ ~aborted /\ ~processExiting
  /\ private_flag_windows_run_tls_destructors
  /\ private_flag_windows_run_tls_destructors' = FALSE
  /\ UNCHANGED <<startVars, otherVars, DEBUG, mutex_, thread_locals_, mutexAlive, mutexOwner,
                 arrayAlive, entries, tldPc, tlsAllocated, tlsValue, liveKeys,
                 precedes, pc, local, reason, dtorLog, suppressed, joined,
                 processExiting, creates, aborted>>

(***************************************************************************)
(* Helpers: the registry mutex, the array, the OS TLS slots.               *)
(***************************************************************************)
lifeVars == <<DEBUG, private_flag_windows_run_tls_destructors, mutex_,
              thread_locals_, mutexAlive, arrayAlive, tldPc>>
keyVars == <<liveKeys, precedes, creates>>
ghostVars == <<suppressed, joined, processExiting>>

\* Mutex::Lock() returns only while no thread holds the mutex: the lock is
\* exclusive and not recursive, so a thread that already holds it waits too
Mutex_Unlocked == mutexOwner = NoThread

\* MutexLocker ml(mutex_) can take the lock: the pointer is set and nobody
\* holds the mutex.  A deleted mutex whose memory is intact behaves the same.
CanLock == mutex_ # NULL /\ Mutex_Unlocked
\* MutexLocker ml(mutex_) crashes: null pointer, or a deleted Mutex
LockCrashes == mutex_ = NULL \/ ~mutexAlive
\* thread_locals_->.. can be evaluated: the pointer is set (a deleted array
\* whose memory is intact still shows its old contents)
CanUseArray == thread_locals_ # NULL
\* thread_locals_->.. crashes: null pointer, or a deleted array
ArrayCrashes == thread_locals_ = NULL \/ ~arrayAlive

\* OSThread::GetThreadLocal(key) = TlsGetValue(key): the values it can return.
\* The slot of a freed index is not defined: zero or what was left in it.
GetThreadLocal(t, key) ==
  IF key \in tlsAllocated THEN {tlsValue[t][key]} ELSE {0, tlsValue[t][key]}

\* indices of the entries whose key is `key`
Matches(seq, key) == {i \in 1..Len(seq) : seq[i].key = key}

\* thread_locals_->RemoveAt(i)
RemoveAt(seq, i) == [j \in 1..(Len(seq) - 1) |-> IF j < i THEN seq[j] ELSE seq[j + 1]]

Min(S) == CHOOSE x \in S : \A y \in S : x <= y

\* keys that are live and were created with a destructor
LiveWithDestructor == {k \in Keys : liveKeys[k] \in Destructors}

(***************************************************************************)
(* OnDartThreadExit and ThreadLocalData::RunDestructors.                   *)
(***************************************************************************)
\* where the callback returns to: a new thread goes on to its entry point,
\* an exiting thread terminates
HookReturnPc(r) == IF r \in AttachReasons THEN "run" ELSE "terminated"

\* a RunDestructors without the null test of thread_locals_
RunDestructors_check_NoNullTest(r) == "Run_lock"

\* RunDestructors: if (thread_locals_ == nullptr) { return; }
RunDestructors_check(r) ==
  IF thread_locals_ = NULL THEN HookReturnPc(r) ELSE "Run_lock"

\* a callback that does not test private_flag_windows_run_tls_destructors
OnDartThreadExit_IgnoresFlag(r) ==
  IF r = DLL_THREAD_DETACH \/ r = DLL_PROCESS_DETACH
    THEN RunDestructors_check(r)
    ELSE HookReturnPc(r)

\* void NTAPI OnDartThreadExit(PVOID module, DWORD reason, PVOID reserved):
\* where thread t stands after the flag test, the reason test and the call
\* of RunDestructors up to its null test
OnDartThreadExit(r) ==
  IF ~private_flag_windows_run_tls_destructors
    THEN HookReturnPc(r)
    ELSE IF r = DLL_THREAD_DETACH \/ r = DLL_PROCESS_DETACH
           THEN RunDestructors_check(r)
           ELSE HookReturnPc(r)

\* the loader calls the TLS callback on thread t with reason r
CallHook(t, r) ==
  /\ reason' = [reason EXCEPT ![t] = r]
  /\ suppressed' = [suppressed EXCEPT ![t] =
                      ~private_flag_windows_run_tls_destructors]

\* the loader calls the TLS callback on a new thread before its entry point
ThreadAttach(t) ==
  /\ ~aborted
  /\ pc[t] = "new"
  /\ \E r \in AttachReasons :
       /\ pc' = [pc EXCEPT ![t] = OnDartThreadExit(r)]
       /\ CallHook(t, DLL_THREAD_ATTACH)
  /\ UNCHANGED <<startVars, otherVars, lifeVars, keyVars, joined, processExiting, mutexOwner,
                 entries, tlsAllocated, tlsValue, local, dtorLog, aborted>>

\* the thread returns from its entry point: the loader calls the TLS callback
\* with DLL_THREAD_DETACH before the thread object is signaled
ThreadExit(t) ==
  /\ ~aborted
  /\ pc[t] = "run"
  /\ pc' = [pc EXCEPT ![t] = OnDartThreadExit(DLL_THREAD_DETACH)]
  /\ CallHook(t, DLL_THREAD_DETACH)
  /\ UNCHANGED <<startVars, otherVars, lifeVars, keyVars, joined, processExiting, mutexOwner,
                 entries, tlsAllocated, tlsValue, local, dtorLog, aborted>>

\* the thread calls ExitProcess: every other thread is terminated where it
\* stands, then the loader calls the TLS callback with DLL_PROCESS_DETACH
ProcessExit(t) ==
  /\ ~aborted
  /\ pc[t] = "run"
  /\ ~processExiting
  /\ processExiting' = TRUE
  /\ pc' = [u \in Threads |->
              IF u = t THEN OnDartThreadExit(DLL_PROCESS_DETACH)
              ELSE IF pc[u] = "terminated" THEN "terminated" ELSE "killed"]
  /\ CallHook(t, DLL_PROCESS_DETACH)
  /\ UNCHANGED <<startVars, otherVars, lifeVars, keyVars, joined, mutexOwner, entries,
                 tlsAllocated, tlsValue, local, dtorLog, aborted>>

\* a RunDestructors that walks the array without holding the mutex
RunDestructors_lock_Unlocked(t) ==
  /\ ~aborted
  /\ pc[t] = "Run_lock"
  /\ pc' = [pc EXCEPT ![t] = "Run_loop"]
  /\ local' = [local EXCEPT ![t].i = 0]
  /\ UNCHANGED <<startVars, otherVars, lifeVars, keyVars, ghostVars, entries,
                 tlsAllocated, tlsValue, reason, dtorLog, mutexOwner, aborted>>

\* ASSERT(mutex_ != nullptr); MutexLocker ml(mutex_);
RunDestructors_lock(t) ==
  /\ ~aborted
  /\ pc[t] = "Run_lock"
  /\ \/ /\ CanLock
        /\ mutexOwner' = t
        /\ pc' = [pc EXCEPT ![t] = "Run_loop"]
        /\ local' = [local EXCEPT ![t].i = 0]
        /\ UNCHANGED aborted
     \/ /\ LockCrashes
        /\ aborted' = TRUE
        /\ UNCHANGED <<mutexOwner, pc, local>>
  /\ UNCHANGED <<startVars, otherVars, lifeVars, keyVars, ghostVars, entries, tlsAllocated,
                 tlsValue, reason, dtorLog>>

\* a sweep that, like pthread key destructors, skips the entries under which
\* the thread has no value
RunDestructors_loop_SkipsNull(t) ==
  /\ ~aborted
  /\ pc[t] = "Run_loop"
  /\ CanUseArray
  /\ IF local[t].i < Len(entries)
       THEN LET entry == entries[local[t].i + 1] IN
            /\ \E p \in GetThreadLocal(t, entry.key) :
                 dtorLog' = [dtorLog EXCEPT ![t] =
                   IF p = 0 THEN @
                   ELSE Append(@, [key |-> entry.key,
                                   destructor |-> entry.destructor,
                                   value |-> p])]
            /\ local' = [local EXCEPT ![t].i = @ + 1]
            /\ UNCHANGED <<pc, mutexOwner>>
       ELSE /\ mutexOwner' = NoThread
            /\ pc' = [pc EXCEPT ![t] = HookReturnPc(reason[t])]
            /\ local' = [local EXCEPT ![t] = NoLocal]
            /\ UNCHANGED dtorLog
  /\ UNCHANGED <<startVars, otherVars, lifeVars, keyVars, ghostVars, entries,
                 tlsAllocated, tlsValue, reason, aborted>>

\* for (i = 0; i < thread_locals_->length(); i++) {
\*   entry = thread_locals_->At(i); p = GetThreadLocal(entry.key());
\*   entry.destructor()(p); }            (one iteration, or the loop's end)
RunDestructors_loop(t) ==
  /\ ~aborted
  /\ pc[t] = "Run_loop"
  /\ \/ /\ CanUseArray
        /\ IF local[t].i < Len(entries)
             THEN LET entry == entries[local[t].i + 1] IN
                  /\ \E p \in GetThreadLocal(t, entry.key) :
                       dtorLog' = [dtorLog EXCEPT ![t] =
                         Append(@, [key |-> entry.key,
                                    destructor |-> entry.destructor,
                                    value |-> p])]
                  /\ local' = [local EXCEPT ![t].i = @ + 1]
                  /\ UNCHANGED <<pc, mutexOwner>>
             ELSE /\ mutexOwner' = NoThread
                  /\ pc' = [pc EXCEPT ![t] = HookReturnPc(reason[t])]
                  /\ local' = [local EXCEPT ![t] = NoLocal]
                  /\ UNCHANGED dtorLog
        /\ UNCHANGED aborted
     \/ /\ ArrayCrashes
        /\ aborted' = TRUE
        /\ UNCHANGED <<pc, mutexOwner, local, dtorLog>>
  /\ UNCHANGED <<startVars, otherVars, lifeVars, keyVars, ghostVars, entries, tlsAllocated,
                 tlsValue, reason>>

\* void ThreadLocalData::RunDestructors(), after its null test
RunDestructors(t) ==
  \/ RunDestructors_lock(t)
  \/ RunDestructors_loop(t)

\* OSThread::Join(id): WaitForSingleObject(handle, INFINITE) returns once the
\* thread has terminated; CloseHandle(handle)
Join(t) ==
  /\ ~aborted /\ ~processExiting
  /\ pc[t] = "terminated"
  /\ ~joined[t]
  /\ joined' = [joined EXCEPT ![t] = TRUE]
  /\ UNCHANGED <<startVars, otherVars, lifeVars, keyVars, suppressed, processExiting, mutexOwner,
                 entries, tlsAllocated, tlsValue, pc, local, reason, dtorLog,
                 aborted>>

(***************************************************************************)
(* OSThread::CreateThreadLocal / DeleteThreadLocal / SetThreadLocal and    *)
(* ThreadLocalData::AddThreadLocal / RemoveThreadLocal.  The runtime makes *)
(* these calls between ThreadLocalData::Init and ThreadLocalData::Cleanup. *)
(***************************************************************************)
\* CreateThreadLocal returns `key` to the program
ReturnKey(t, key, destructor) ==
  /\ liveKeys' = [liveKeys EXCEPT ![key] = destructor]
  /\ pc' = [pc EXCEPT ![t] = "run"]
  /\ local' = [local EXCEPT ![t] = NoLocal]

\* AddThreadLocal up to its lock:
\* ASSERT(thread_locals_ != nullptr);
\* if (destructor == nullptr) { return; }
AddThreadLocal_entry(t, key, destructor) ==
  IF DEBUG /\ thread_locals_ = NULL
    THEN /\ aborted' = TRUE
         /\ UNCHANGED <<liveKeys, pc, local>>
    ELSE /\ IF destructor = NULL
              THEN ReturnKey(t, key, destructor)
              ELSE /\ pc' = [pc EXCEPT ![t] = "Add_lock"]
                   /\ local' = [local EXCEPT ![t] =
                        [key |-> key, destructor |-> destructor, i |-> 0]]
                   /\ UNCHANGED liveKeys
         /\ UNCHANGED aborted

\* ThreadLocalKey key = TlsAlloc();
\* if (key == kUnsetThreadLocalKey) FATAL("TlsAlloc failed")
\* ThreadLocalData::AddThreadLocal(key, destructor);
CreateThreadLocal_TlsAlloc(t) ==
  /\ ~aborted
  /\ pc[t] = "run"
  /\ tldPc = "ready"
  /\ creates < MaxCreates
  /\ creates' = creates + 1
  /\ \E destructor \in {OwnDestructor(t), NULL} :
       IF Keys \ tlsAllocated = {}
         THEN /\ aborted' = TRUE
              /\ UNCHANGED <<tlsAllocated, tlsValue, liveKeys, precedes, local,
                             pc>>
         ELSE \E key \in Keys \ tlsAllocated :
                /\ tlsAllocated' = tlsAllocated \cup {key}
                \* "The slots for the index are initialized to zero."
                /\ tlsValue' = [u \in Threads |-> [tlsValue[u] EXCEPT ![key] = 0]]
                /\ precedes' = [precedes EXCEPT ![key] = LiveWithDestructor]
                /\ AddThreadLocal_entry(t, key, destructor)
  /\ UNCHANGED <<startVars, otherVars, lifeVars, ghostVars, mutexOwner, entries, reason, dtorLog>>

\* MutexLocker ml(mutex_);
AddThreadLocal_lock(t) ==
  /\ ~aborted
  /\ pc[t] = "Add_lock"
  /\ \/ /\ CanLock
        /\ mutexOwner' = t
        /\ pc' = [pc EXCEPT ![t] = "Add_body"]
        /\ UNCHANGED aborted
     \/ /\ LockCrashes
        /\ aborted' = TRUE
        /\ UNCHANGED <<mutexOwner, pc>>
  /\ UNCHANGED <<startVars, otherVars, lifeVars, keyVars, ghostVars, entries, tlsAllocated,
                 tlsValue, local, reason, dtorLog>>

\* #if defined(DEBUG) for (..) ASSERT(entry.key() != key); #endif
\* thread_locals_->Add(ThreadLocalEntry(key, destructor));   (and unlock)
AddThreadLocal_body(t) ==
  /\ ~aborted
  /\ pc[t] = "Add_body"
  /\ \/ /\ CanUseArray
        /\ IF DEBUG /\ Matches(entries, local[t].key) # {}
             THEN /\ aborted' = TRUE
                  /\ UNCHANGED <<entries, mutexOwner, liveKeys, pc, local>>
             ELSE /\ entries' = Append(entries,
                        ThreadLocalEntry(local[t].key, local[t].destructor))
                  /\ mutexOwner' = NoThread
                  /\ ReturnKey(t, local[t].key, local[t].destructor)
                  /\ UNCHANGED aborted
     \/ /\ ArrayCrashes
        /\ aborted' = TRUE
        /\ UNCHANGED <<entries, mutexOwner, liveKeys, pc, local>>
  /\ UNCHANGED <<startVars, otherVars, lifeVars, precedes, creates, ghostVars, tlsAllocated,
                 tlsValue, reason, dtorLog>>

\* void ThreadLocalData::AddThreadLocal(key, destructor), from its lock on
AddThreadLocal(t) ==
  \/ AddThreadLocal_lock(t)
  \/ AddThreadLocal_body(t)

\* ThreadLocalKey OSThread::CreateThreadLocal(ThreadDestructor destructor)
CreateThreadLocal(t) ==
  \/ CreateThreadLocal_TlsAlloc(t)
  \/ AddThreadLocal(t)

\* ASSERT(key != kUnsetThreadLocalKey); BOOL result = TlsFree(key);
\* if (!result) FATAL(..)     (the program deletes a key it holds)
DeleteThreadLocal_TlsFree(t) ==
  /\ ~aborted
  /\ pc[t] = "run"
  /\ tldPc = "ready"
  /\ \E key \in Keys :
       /\ liveKeys[key] # NotLive
       /\ tlsAllocated' = tlsAllocated \ {key}
       /\ liveKeys' = [liveKeys EXCEPT ![key] = NotLive]
       /\ precedes' = [k \in Keys |-> IF k = key THEN {} ELSE precedes[k] \ {key}]
       \* the call remembers the destructor its key was created with
       /\ local' = [local EXCEPT ![t].key = key, ![t].destructor = liveKeys[key]]
  /\ pc' = [pc EXCEPT ![t] = "RemoveThreadLocal"]
  /\ UNCHANGED <<startVars, otherVars, lifeVars, creates, ghostVars, mutexOwner, entries, tlsValue,
                 reason, dtorLog, aborted>>

\* a RemoveThreadLocal that searches the array without taking the mutex
RemoveThreadLocal_lock_NoLock(t) ==
  /\ ~aborted
  /\ pc[t] = "RemoveThreadLocal"
  /\ pc' = [pc EXCEPT ![t] = "Remove_body"]
  /\ UNCHANGED <<startVars, otherVars, lifeVars, keyVars, ghostVars, entries,
                 tlsAllocated, tlsValue, local, reason, dtorLog, mutexOwner,
                 aborted>>

\* ASSERT(thread_locals_ != nullptr); MutexLocker ml(mutex_);
RemoveThreadLocal_lock(t) ==
  /\ ~aborted
  /\ pc[t] = "RemoveThreadLocal"
  /\ \/ /\ ~(DEBUG /\ thread_locals_ = NULL)
        /\ CanLock
        /\ mutexOwner' = t
        /\ pc' = [pc EXCEPT ![t] = "Remove_body"]
        /\ UNCHANGED aborted
     \/ /\ (DEBUG /\ thread_locals_ = NULL) \/ LockCrashes
        /\ aborted' = TRUE
        /\ UNCHANGED <<mutexOwner, pc>>
  /\ UNCHANGED <<startVars, otherVars, lifeVars, keyVars, ghostVars, entries, tlsAllocated,
                 tlsValue, local, reason, dtorLog>>

\* for (; i < length; i++) if (At(i).key() == key) break;
\* if (i == length) return;  thread_locals_->RemoveAt(i);   (and unlock)
RemoveThreadLocal_body(t) ==
  /\ ~aborted
  /\ pc[t] = "Remove_body"
  /\ \/ /\ CanUseArray
        /\ entries' = IF Matches(entries, local[t].key) = {}
                        THEN entries
                        ELSE RemoveAt(entries, Min(Matches(entries, local[t].key)))
        /\ mutexOwner' = NoThread
        /\ pc' = [pc EXCEPT ![t] = "run"]
        /\ local' = [local EXCEPT ![t] = NoLocal]
        /\ UNCHANGED aborted
     \/ /\ ArrayCrashes
        /\ aborted' = TRUE
        /\ UNCHANGED <<entries, mutexOwner, pc, local>>
  /\ UNCHANGED <<startVars, otherVars, lifeVars, keyVars, ghostVars, tlsAllocated, tlsValue, reason,
                 dtorLog>>

\* void ThreadLocalData::RemoveThreadLocal(ThreadLocalKey key)
RemoveThreadLocal(t) ==
  \/ RemoveThreadLocal_lock(t)
  \/ RemoveThreadLocal_body(t)

\* void OSThread::DeleteThreadLocal(ThreadLocalKey key)
DeleteThreadLocal(t) ==
  \/ DeleteThreadLocal_TlsFree(t)
  \/ RemoveThreadLocal(t)

\* void OSThread::SetThreadLocal(key, value): TlsSetValue(key, value)
SetThreadLocal(t) ==
  /\ ~aborted
  /\ pc[t] = "run"
  /\ \E key \in Keys, value \in {0, OwnValue(t)} :
       /\ liveKeys[key] # NotLive
       /\ value # tlsValue[t][key]
       /\ tlsValue' = [tlsValue EXCEPT ![t][key] = value]
  /\ UNCHANGED <<startVars, otherVars, lifeVars, keyVars, ghostVars, mutexOwner, entries,
                 tlsAllocated, pc, local, reason, dtorLog, aborted>>

(***************************************************************************)
(* A destructor that calls back into the key API.  The destructor runs     *)
(* inside RunDestructors' loop, on the sweeping thread, and its call       *)
(* proceeds like any other call of DeleteThreadLocal / CreateThreadLocal.  *)
(***************************************************************************)
\* entry.destructor()(p) of the sweep's next iteration begins on thread t
Destructor_invoked(t) ==
  /\ ~aborted
  /\ pc[t] = "Run_loop"
  /\ CanUseArray
  /\ local[t].i < Len(entries)
  /\ LET entry == entries[local[t].i + 1] IN
       \E p \in GetThreadLocal(t, entry.key) :
         dtorLog' = [dtorLog EXCEPT ![t] =
           Append(@, [key |-> entry.key, destructor |-> entry.destructor,
                      value |-> p])]

\* the destructor calls OSThread::DeleteThreadLocal(key) on a key the program
\* holds: ASSERT; TlsFree(key); then ThreadLocalData::RemoveThreadLocal(key)
Destructor_DeleteThreadLocal(t) ==
  /\ Destructor_invoked(t)
  /\ \E key \in Keys :
       /\ liveKeys[key] # NotLive
       /\ tlsAllocated' = tlsAllocated \ {key}
       /\ liveKeys' = [liveKeys EXCEPT ![key] = NotLive]
       /\ precedes' = [k \in Keys |-> IF k = key THEN {} ELSE precedes[k] \ {key}]
       /\ local' = [local EXCEPT ![t].key = key, ![t].destructor = liveKeys[key]]
  /\ pc' = [pc EXCEPT ![t] = "RemoveThreadLocal"]
  /\ UNCHANGED <<startVars, otherVars, lifeVars, creates, ghostVars, mutexOwner,
                 entries, tlsValue, reason, aborted>>

\* the destructor calls OSThread::CreateThreadLocal(destructor) with a
\* non-null destructor: TlsAlloc(); AddThreadLocal(key, destructor) up to its
\* MutexLocker
Destructor_CreateThreadLocal(t) ==
  /\ Destructor_invoked(t)
  /\ creates < MaxCreates
  /\ creates' = creates + 1
  /\ Keys \ tlsAllocated # {}
  /\ \E key \in Keys \ tlsAllocated :
       /\ tlsAllocated' = tlsAllocated \cup {key}
       /\ tlsValue' = [u \in Threads |-> [tlsValue[u] EXCEPT ![key] = 0]]
       /\ precedes' = [precedes EXCEPT ![key] = LiveWithDestructor]
       /\ local' = [local EXCEPT ![t].key = key,
                                 ![t].destructor = OwnDestructor(t)]
  /\ pc' = [pc EXCEPT ![t] = "Add_lock"]
  /\ UNCHANGED <<startVars, otherVars, lifeVars, liveKeys, ghostVars, mutexOwner,
                 entries, reason, aborted>>

(***************************************************************************)
(* The state machines.                                                     *)
(***************************************************************************)
\* the TLS variables while only the launch machine runs
TlsIdle ==
  /\ DEBUG = FALSE
  /\ private_flag_windows_run_tls_destructors = TRUE
  /\ mutex_ = NULL
  /\ thread_locals_ = NULL
  /\ mutexAlive = FALSE
  /\ mutexOwner = NoThread
  /\ arrayAlive = FALSE
  /\ entries = <<>>
  /\ tldPc = "uninit"
  /\ tlsAllocated = {}
  /\ tlsValue = [t \in Threads |-> [k \in Keys |-> 0]]
  /\ liveKeys = [k \in Keys |-> NotLive]
  /\ precedes = [k \in Keys |-> {}]
  /\ pc = [t \in Threads |-> "new"]
  /\ local = [t \in Threads |-> NoLocal]
  /\ reason = [t \in Threads |-> DLL_THREAD_ATTACH]
  /\ dtorLog = [t \in Threads |-> <<>>]
  /\ suppressed = [t \in Threads |-> FALSE]
  /\ joined = [t \in Threads |-> FALSE]
  /\ processExiting = FALSE
  /\ creates = 0

\* the launch variables while only the TLS machine runs
StartIdle ==
  /\ backend = "win"
  /\ FLAG_worker_thread_priority = kMinInt
  /\ launcherBlocksSIGPROF = FALSE
  /\ startPc = [c \in Calls |-> "idle"]
  /\ startArgs = [c \in Calls |-> NoLocals]
  /\ startRet = [c \in Calls |-> 0]
  /\ start_data = [c \in Calls |-> NoData]
  /\ dataLog = [c \in Calls |-> <<>>]
  /\ createRequests = [c \in Calls |-> 0]
  /\ nativeThreads = [c \in Calls |-> 0]
  /\ trampPc = [c \in Calls |-> "none"]
  /\ trampLocals = [c \in Calls |-> NoLocals]
  /\ osThread = [c \in Calls |-> "unset"]
  /\ currentSet = [c \in Calls |-> FALSE]
  /\ sigprofBlocked = [c \in Calls |-> FALSE]
  /\ priorityCalls = [c \in Calls |-> 0]
  /\ entryLog = [c \in Calls |-> <<>>]

\* the other machines while only launch or only the registry runs
OtherIdle == JoinIdle /\ StackIdle

InitStart == InitStartVars /\ TlsIdle /\ OtherIdle /\ aborted = FALSE

NextStart == \E c \in Calls : Start(c) \/ ThreadEntry(c) \/ ThreadStart(c)

\* thread launch on either backend
SpecStart == InitStart /\ [][NextStart]_vars

\* the OS schedules every native thread it created
SpecStartFair ==
  /\ SpecStart
  /\ \A c \in Calls : WF_vars(ThreadEntry(c) \/ ThreadStart(c))

InitTls == InitTlsVars /\ StartIdle /\ OtherIdle /\ aborted = FALSE

ThreadStep(t) ==
  \/ ThreadAttach(t)
  \/ RunDestructors(t)
  \/ CreateThreadLocal(t)
  \/ DeleteThreadLocal(t)
  \/ SetThreadLocal(t)
  \/ ThreadExit(t)
  \/ ProcessExit(t)
  \/ Join(t)

NextTls ==
  \/ Init
  \/ FlipRunTlsDestructors
  \/ \E t \in Threads : ThreadStep(t)

\* the Windows TLS registry from process start, during the registry's life
\* (ThreadLocalData::Cleanup is not called)
SpecTls == InitTls /\ [][NextTls]_vars

InitStack ==
  /\ InitStartVars
  /\ FLAG_worker_thread_priority = kMinInt
  /\ launcherBlocksSIGPROF = FALSE
  /\ TlsIdle
  /\ JoinIdle
  /\ StackInputs
  /\ aborted = FALSE

\* one call of GetCurrentStackBounds on each platform, thread and stack
SpecStack == InitStack /\ [][GetCurrentStackBounds]_vars

NextJoin ==
  \E c \in Calls :
    \/ Start(c) \/ ThreadEntry(c) \/ ThreadStart(c)
    \/ OSThread_Join(c)
    \/ OSThread_Detach(c)

\* threads are launched, and joined or detached by the threads that hold
\* their join ids
SpecJoin == InitStart /\ [][NextJoin]_vars

NextReentrant ==
  \/ Init
  \/ \E t \in Threads :
       \/ ThreadAttach(t)
       \/ CreateThreadLocal(t)
       \/ DeleteThreadLocal(t)
       \/ ThreadExit(t)
       \/ RunDestructors(t)
       \/ Destructor_DeleteThreadLocal(t)
       \/ Destructor_CreateThreadLocal(t)

\* the registry with destructors that call DeleteThreadLocal or
\* CreateThreadLocal
SpecReentrant == InitTls /\ [][NextReentrant]_vars

NextCleanup ==
  \/ Init
  \/ Cleanup
  \/ \E t \in Threads :
       \/ ThreadAttach(t)
       \/ CreateThreadLocal(t)
       \/ SetThreadLocal(t)
       \/ ThreadExit(t)
       \/ RunDestructors(t)

\* the registry from process start to the end of ThreadLocalData::Cleanup,
\* with threads that create keys, set values and exit at any moment
SpecCleanup == InitTls /\ [][NextCleanup]_vars

(***************************************************************************)
(* Properties of thread launch.                                            *)
(***************************************************************************)
\* Start(name, function, parameter) of call c has returned
Returned(c) == startPc[c] = "returned"

\* function(parameter) was invoked once, by the thread created for call c,
\* with the function and the parameter that were passed to Start
InvokedAsPassed(c) ==
  /\ Len(entryLog[c]) = 1
  /\ entryLog[c][1].thread = NativeThread(c)
  /\ entryLog[c][1].thread # Launcher
  /\ entryLog[c][1].function = startArgs[c].function
  /\ entryLog[c][1].parameter = startArgs[c].parameter

NeverInvoked(c) == entryLog[c] = <<>>

C6_PackageReleasedOnFailure ==
  \A c \in Calls :
    Returned(c) /\ startRet[c] # 0 => start_data[c].state # "live"

\* the accesses a package sees in its life: allocated by the launcher, read
\* three times and deleted by the thread of the call
PackageLifecycle(c) ==
  << <<Launcher, "new">>, <<NativeThread(c), "name">>,
     <<NativeThread(c), "function">>, <<NativeThread(c), "parameter">>,
     <<NativeThread(c), "delete">> >>

IsPrefix(s, t) == Len(s) <= Len(t) /\ SubSeq(t, 1, Len(s)) = s

\* C7: after the launcher allocated it, a package is accessed only by the
\* trampoline of its own thread, which reads name, function and parameter
\* and then deletes it, once; the trampoline is past the delete, and the
\* package is freed, when it creates the OSThread and when entry is invoked.
C7_PackageOwnership ==
  \A c \in Calls :
    /\ IsPrefix(dataLog[c], PackageLifecycle(c))
    /\ Len(dataLog[c]) > 1 => nativeThreads[c] = 1
    /\ trampPc[c] \in {"CreateOSThread", "SetCurrent", "call", "in_function",
                       "returned"}
         => dataLog[c] = PackageLifecycle(c) /\ start_data[c].state = "freed"
    /\ ~NeverInvoked(c)
         => dataLog[c] = PackageLifecycle(c) /\ entryLog[c][1].data = "freed"

\* entry was invoked for a call whose package went through its whole life
C7_Witness ==
  \E c \in Calls :
    /\ ~NeverInvoked(c)
    /\ dataLog[c] = PackageLifecycle(c)
    /\ start_data[c].state = "freed"

\* C8 as stated: a call makes at most one creation request; exactly one
\* native thread exists when it has returned 0 and none when it has returned
\* a non-zero code.
C8_OneCreationRequest ==
  \A c \in Calls :
    /\ createRequests[c] <= 1
    /\ Returned(c) => nativeThreads[c] = (IF startRet[c] = 0 THEN 1 ELSE 0)

(***************************************************************************)
(* Properties of the Windows thread-local registry.                        *)
(***************************************************************************)
\* thread t returned from its entry point, and its DLL_THREAD_DETACH
\* callback found the run-destructors flag true and has returned
ExitedNormally(t) ==
  /\ pc[t] = "terminated"
  /\ reason[t] = DLL_THREAD_DETACH
  /\ ~suppressed[t]

\* key k is held by the program and was created with a destructor, and
\* thread t has a non-null value stored under it.  TlsAlloc zeroes the slots
\* of the index it hands out, so the value was stored after k was created
\* and k has not been deleted since.
HoldsValue(t, k) ==
  /\ liveKeys[k] \in Destructors
  /\ tlsValue[t][k] # 0

\* the destructor invocations made on thread t for key k
Invocations(t, k) == {i \in 1..Len(dtorLog[t]) : dtorLog[t][i].key = k}

\* the invocations, on thread t, of the destructor k was created with, with
\* the value t stored under k
OwnInvocations(t, k) ==
  {i \in Invocations(t, k) :
     /\ dtorLog[t][i].destructor = liveKeys[k]
     /\ dtorLog[t][i].value = tlsValue[t][k]}

\* C2 as stated: when a thread that stored a non-null v under a key created
\* with destructor D has exited normally (hence also when a Join on it has
\* returned), D has been invoked on that thread exactly once with v.
C2_DestructorExactlyOnce ==
  \A t \in Threads, k \in Keys :
    ExitedNormally(t) /\ HoldsValue(t, k)
      => Cardinality(OwnInvocations(t, k)) = 1

\* C3 as stated: when K1 was created before K2, both with destructors, and a
\* thread with values under both has exited normally, every destructor
\* invocation for K2 on that thread comes after one for K1.
C3_InsertionOrder ==
  \A t \in Threads, k1 \in Keys, k2 \in Keys :
    /\ k1 \in precedes[k2]
    /\ ExitedNormally(t)
    /\ HoldsValue(t, k1)
    /\ HoldsValue(t, k2)
    => \A j \in Invocations(t, k2) : \E i \in Invocations(t, k1) : i < j

\* thread t is inside the locked region of AddThreadLocal, RemoveThreadLocal
\* or RunDestructors
InsideRegistry(t) == pc[t] \in {"Add_body", "Remove_body", "Run_loop"}

\* thread t waits for, or is about to take, the registry mutex
AtRegistryLock(t) == pc[t] \in {"Add_lock", "RemoveThreadLocal", "Run_lock"}

\* the step is thread t's exit callback getting as far as RunDestructors'
\* test of thread_locals_
ReadsThreadLocalsPointer(t) ==
  /\ pc[t] = "run"
  /\ pc'[t] \in {"Run_lock", "terminated"}
  /\ private_flag_windows_run_tls_destructors

\* C4 as stated: a thread inside a registration, a deregistration or a sweep
\* holds the mutex, and no step reads registry state without holding it.
C4_AllAccessUnderMutex ==
  /\ [](\A t \in Threads : InsideRegistry(t) => mutexOwner = t)
  /\ [][\A t \in Threads : ReadsThreadLocalsPointer(t) => mutexOwner = t]_vars

\* C4 amended: during the registry's life every access to the contents of
\* the sequence is made by the thread that holds the mutex: a thread inside
\* AddThreadLocal's bookkeeping, RemoveThreadLocal's search or
\* RunDestructors' loop holds the mutex (so at most one thread is inside at
\* a time), the mutex is held only by a thread inside one of them (or by a
\* thread that ExitProcess terminated there), and the sequence changes and
\* destructors run only in steps of the holder.
C4_MutualExclusion ==
  /\ [](\A t \in Threads :
          /\ InsideRegistry(t) => mutexOwner = t
          /\ mutexOwner = t => InsideRegistry(t) \/ pc[t] = "killed")
  /\ [][entries' # entries \/ dtorLog' # dtorLog
          => mutexOwner # NoThread /\ InsideRegistry(mutexOwner)]_vars

\* one thread is inside the locked region while the other is at the lock
C4_Witness ==
  \E t, u \in Threads :
    /\ t # u
    /\ InsideRegistry(t)
    /\ mutexOwner = t
    /\ AtRegistryLock(u)
    /\ entries # <<>>

\* C5 as stated: the registry never holds two entries with the same key.
C5_NoDuplicateKeys ==
  \A i, j \in 1..Len(entries) : entries[i].key = entries[j].key => i = j

\* the step is an invocation of OnDartThreadExit on thread t: on a new
\* thread (attach), or on a thread leaving its entry point or calling
\* ExitProcess (detach)
HookInvoked(t) ==
  \/ pc[t] = "new" /\ pc'[t] \notin {"new", "killed"}
  \/ pc[t] = "run" /\ pc'[t] \in {"terminated", "Run_lock"}

\* the invocation returned at once, leaving the registry, the mutex, the TLS
\* values and the destructor log as they were
HookIsNoOp(t) ==
  /\ pc'[t] \in {"run", "terminated"}
  /\ dtorLog' = dtorLog
  /\ entries' = entries
  /\ tlsValue' = tlsValue
  /\ mutexOwner' = mutexOwner
  /\ aborted' = aborted

\* C9: an invocation of OnDartThreadExit while the run-destructors flag is
\* false, with whatever reason, invokes no destructor and leaves the
\* registry and every TLS value unchanged.
C9_SuppressedHookIsNoOp ==
  [][\A t \in Threads :
       HookInvoked(t) /\ ~private_flag_windows_run_tls_destructors
         => HookIsNoOp(t)]_vars

\* a thread with a non-null value under a registered key has exited while
\* the flag was false, and no destructor ran for it
C9_Witness ==
  \E t \in Threads, k \in Keys :
    /\ pc[t] = "terminated"
    /\ suppressed[t]
    /\ HoldsValue(t, k)
    /\ Matches(entries, k) # {}
    /\ dtorLog[t] = <<>>

\* C10: an invocation of OnDartThreadExit before ThreadLocalData::Init has
\* been called invokes no destructor, does not touch the mutex and does not
\* abort.
C10_HookBeforeInitIsNoOp ==
  [][\A t \in Threads : HookInvoked(t) /\ tldPc = "uninit"
       => HookIsNoOp(t)]_vars

\* a thread has exited, with the flag true, before ThreadLocalData::Init
C10_Witness ==
  \E t \in Threads :
    /\ ExitedNormally(t)
    /\ tldPc = "uninit"
    /\ mutex_ = NULL
    /\ ~aborted

\* thread t is inside DeleteThreadLocal(key), after TlsFree, for a key that
\* was created with a null destructor
DeletesUnregisteredKey(t) ==
  /\ pc[t] \in {"RemoveThreadLocal", "Remove_body"}
  /\ local[t].destructor = NULL

\* C11 as stated: the steps of a DeleteThreadLocal on a key created with a
\* null destructor raise no assertion and leave the registry's entries (their
\* count, contents and order) unchanged.
C11_DeleteUnregisteredKeepsRegistry ==
  [][\A t \in Threads :
       DeletesUnregisteredKey(t) /\ pc'[t] # pc[t]
         => entries' = entries /\ aborted' = aborted]_vars

\* C12: a Join that has returned was called on a thread that has terminated,
\* and a Join whose target has not terminated cannot return; a Detach can be
\* made, and returns, whatever the state of the target thread.
C12_JoinWaitsDetachDoesNot ==
  \A c \in Calls :
    /\ joinPc[c] = "joined" => ThreadTerminated(c)
    /\ joinPc[c] = "Join_wait" /\ ~ThreadTerminated(c)
         => ~ENABLED OSThread_Join(c)
    /\ HasJoinId(c) /\ ~aborted => ENABLED OSThread_Detach(c)

\* a Join has returned on a terminated thread, and a Detach has returned
\* while its target thread is still running its entry function
C12_Witness ==
  \E c, d \in Calls :
    /\ joinPc[c] = "joined"
    /\ ThreadTerminated(c)
    /\ joinPc[d] = "detached"
    /\ trampPc[d] = "in_function"

\* the OS could not supply the stack attributes of the calling thread
AttributesUnavailable == boundsLocal.attr = "failed"

\* C13: on Linux and Android a call that has returned returned false exactly
\* when the OS could not supply the stack attributes, and then it did not
\* abort and stored to neither *lower nor *upper; a call that returned true
\* stored the stack's base to *lower and *lower + size to *upper.
C13_StackBoundsPosix ==
  DART_HOST_OS \in {"linux", "android"} /\ boundsPc = "returned" =>
    /\ boundsRet = FALSE <=> AttributesUnavailable
    /\ boundsRet = FALSE =>
         /\ ~aborted
         /\ written = {}
         /\ lower = Unset /\ upper = Unset
    /\ boundsRet = TRUE =>
         /\ lower = stack.base
         /\ upper = lower + stack.size

\* both outcomes: the attributes were refused and nothing was stored, or
\* they were supplied and the bounds were stored
C13_Witness ==
  /\ DART_HOST_OS \in {"linux", "android"}
  /\ boundsPc = "returned"
  /\ \/ boundsRet = FALSE /\ AttributesUnavailable /\ currentThread = "main"
     \/ boundsRet = TRUE /\ written = {"lower", "upper"}

\* the addresses of the reserved region's lowest `n` pages of 4096 bytes
LowestPages(n) == {stack.base + i : i \in 0..(n * 4096 - 1)}

\* C14: when GetCurrentStackBounds has returned true on a thread created by
\* Start, lower < upper; on Windows upper is the TIB's stack base, lower is
\* the allocation base of the reserved region plus four pages of 4096 bytes,
\* and no address of the lowest four pages is inside [lower, upper).
C14_StackBoundsOrdered ==
  currentThread = "started" /\ boundsPc = "returned" /\ boundsRet = TRUE =>
    /\ lower < upper
    /\ DART_HOST_OS = "windows" =>
         /\ upper = stack.base + stack.size
         /\ lower = stack.base + 4 * 4096
         /\ \A a \in LowestPages(4) : ~(lower <= a /\ a < upper)

\* the call has returned true on a Windows thread created by Start whose
\* reservation is exactly GetMaxStackSize() bytes
C14_Witness ==
  /\ DART_HOST_OS = "windows"
  /\ currentThread = "started"
  /\ stack.size = 128 * kWordSize * 1024
  /\ boundsPc = "returned"
  /\ boundsRet = TRUE
  /\ written = {"lower", "upper"}

DetachReasons == {DLL_THREAD_DETACH, DLL_PROCESS_DETACH}

\* the step is an invocation of OnDartThreadExit on thread t with a detach
\* reason
DetachHookInvoked(t) ==
  /\ pc[t] = "run"
  /\ pc'[t] \in {"terminated", "Run_lock"}
  /\ reason'[t] \in DetachReasons

\* the step is one destructor invocation of thread t's sweep, made for the
\* next entry of the registry with the destructor of that entry and the
\* value thread t holds under the entry's key
InvokesNextEntry(t) ==
  LET n == Len(dtorLog[t])
      entry == entries[n + 1]
      call == dtorLog'[t][n + 1]
  IN /\ pc[t] = "Run_loop"
     /\ mutexOwner = t
     /\ n < Len(entries)
     /\ dtorLog'[t] = Append(dtorLog[t], call)
     /\ call.key = entry.key
     /\ call.destructor = entry.destructor
     /\ entry.key \in tlsAllocated => call.value = tlsValue[t][entry.key]
     /\ call.value \in {0, OwnValue(t)}

\* C15: with the flag true and the registry initialized, an invocation of
\* the callback with a detach reason enters the sweep; the sweep invokes,
\* entry by entry, the destructor of each entry with the calling thread's
\* own value under the entry's key, null or not, and ends only when every
\* entry has had its one invocation; no destructor runs outside a sweep, and
\* an invocation with an attach reason runs none.
C15_SweepInvokesEveryEntryOnce ==
  /\ [](\A t \in Threads :
          pc[t] = "Run_loop" =>
            /\ reason[t] \in DetachReasons
            /\ Len(dtorLog[t]) = local[t].i
            /\ local[t].i <= Len(entries)
            /\ \A i \in 1..Len(dtorLog[t]) :
                 /\ dtorLog[t][i].key = entries[i].key
                 /\ dtorLog[t][i].destructor = entries[i].destructor)
  /\ [][\A t \in Threads :
          /\ DetachHookInvoked(t) /\ private_flag_windows_run_tls_destructors
               /\ tldPc = "ready"
               => pc'[t] = "Run_lock"
          /\ dtorLog'[t] # dtorLog[t] => InvokesNextEntry(t)
          /\ pc[t] = "Run_loop" /\ pc'[t] = "terminated"
               => Len(dtorLog[t]) = Len(entries)
          /\ HookInvoked(t) /\ pc[t] = "new" => HookIsNoOp(t)]_vars

\* a thread has exited through a sweep of two entries: under one key it had
\* no value (the other thread has one there), under the other it had its own
C15_Witness ==
  \E t, u \in Threads :
    /\ t # u
    /\ ExitedNormally(t)
    /\ Len(entries) = 2
    /\ Len(dtorLog[t]) = 2
    /\ \E i, j \in 1..2 :
         /\ dtorLog[t][i].value = 0
         /\ tlsValue[u][dtorLog[t][i].key] = OwnValue(u)
         /\ dtorLog[t][j].value = OwnValue(t)
         /\ dtorLog[t][j].destructor = entries[j].destructor

\* thread t is inside a call of CreateThreadLocal or DeleteThreadLocal
InKeyCall(t) ==
  pc[t] \in {"Add_lock", "Add_body", "RemoveThreadLocal", "Remove_body"}

\* no CreateThreadLocal or DeleteThreadLocal call is in progress (a call cut
\* short by ExitProcess stays in progress)
NoKeyCallInProgress ==
  /\ \A t \in Threads : ~InKeyCall(t)
  /\ ~processExiting

\* C16 as stated: when no CreateThreadLocal or DeleteThreadLocal call is in
\* progress, the registry holds one entry for each live key created with a
\* non-null destructor and no other entry, each entry carries the destructor
\* its key was created with, and the entry of a key that was live when the
\* creation of another began comes before the entry of that other key.
C16_RegistryMatchesLiveKeys ==
  NoKeyCallInProgress =>
    /\ {entries[i].key : i \in 1..Len(entries)} = LiveWithDestructor
    /\ Len(entries) = Cardinality(LiveWithDestructor)
    /\ \A i \in 1..Len(entries) :
         entries[i].destructor = liveKeys[entries[i].key]
    /\ \A i, j \in 1..Len(entries) :
         entries[i].key \in precedes[entries[j].key] => i < j

\* the step is a step of the trampoline of call c
TrampolineStep(c) == trampPc[c] # "none" /\ trampPc'[c] # trampPc[c]

\* C17: when CreateOSThread has returned null in the trampoline of a call,
\* entry has not been and is never invoked, SetCurrent has not been and is
\* never called, the package has been deleted and the trampoline has
\* returned; no step of a trampoline changes what Start returns, and on
\* Windows the Start that created the thread returns 0.
C17_NullOSThread ==
  /\ [](\A c \in Calls :
          osThread[c] = NULL =>
            /\ NeverInvoked(c)
            /\ ~currentSet[c]
            /\ start_data[c].state = "freed"
            /\ dataLog[c] = PackageLifecycle(c)
            /\ trampPc[c] = "returned"
            /\ Returned(c) /\ backend = "win" => startRet[c] = 0)
  /\ [][\A c \in Calls :
          TrampolineStep(c) => startRet' = startRet /\ startPc' = startPc]_vars

\* CreateOSThread returned null on the thread of a call whose Start has
\* returned 0
C17_Witness ==
  \E c \in Calls :
    /\ osThread[c] = NULL
    /\ trampPc[c] = "returned"
    /\ Returned(c)
    /\ startRet[c] = 0
    /\ nativeThreads[c] = 1

\* the trampoline of call c has not accessed the package yet
PackageUntouched(c) ==
  /\ dataLog[c] = << <<Launcher, "new">> >>
  /\ start_data[c].state = "live"

\* the priority call made by the thread of call c has failed
PriorityCallFailed(c) == trampPc[c] = "priority" /\ priorityCalls[c] = 1

\* C18: a trampoline makes one priority call when the flag differs from
\* kMinInt and none when it equals it; the call is made before the thread's
\* first access to the package; a thread whose call failed has aborted the
\* process, and its entry is never invoked.
C18_PriorityCall ==
  /\ [](\A c \in Calls :
          /\ priorityCalls[c] =
               (IF /\ FLAG_worker_thread_priority # kMinInt
                   /\ trampPc[c] \notin {"none", "priority"}
                 THEN 1
                 ELSE IF PriorityCallFailed(c) THEN 1 ELSE 0)
          /\ trampPc[c] = "priority" => PackageUntouched(c)
          /\ PriorityCallFailed(c) => aborted /\ NeverInvoked(c))
  /\ [][\A c \in Calls :
          /\ priorityCalls'[c] # priorityCalls[c] =>
               /\ FLAG_worker_thread_priority # kMinInt
               /\ PackageUntouched(c)
               /\ dataLog'[c] = dataLog[c]
               /\ aborted' \/ trampPc'[c] = "extract"
          /\ aborted => entryLog' = entryLog]_vars

\* with the flag set, one thread made its priority call and had its entry
\* invoked, and the priority call of another failed
C18_Witness ==
  \E c, d \in Calls :
    /\ FLAG_worker_thread_priority # kMinInt
    /\ priorityCalls[c] = 1
    /\ ~NeverInvoked(c)
    /\ PriorityCallFailed(d)
    /\ aborted
    /\ NeverInvoked(d)

\* C20: on the pthread backend every invocation of entry was made with
\* SIGPROF unblocked on the invoking thread, whether or not the thread that
\* called Start had it blocked.
C20_SigprofUnblockedAtEntry ==
  backend = "absl" =>
    \A c \in Calls : \A i \in 1..Len(entryLog[c]) :
      ~entryLog[c][i].sigprofBlocked

\* entry was invoked on a thread that was created with SIGPROF blocked,
\* inherited from its spawner
C20_Witness ==
  \E c \in Calls :
    /\ backend = "absl"
    /\ launcherBlocksSIGPROF
    /\ ~NeverInvoked(c)
    /\ entryLog[c][1].thread = NativeThread(c)
    /\ ~entryLog[c][1].sigprofBlocked

\* thread t, holding the registry mutex in its sweep, is at the MutexLocker
\* of the RemoveThreadLocal or AddThreadLocal its destructor called
Reentered(t) ==
  /\ mutexOwner = t
  /\ pc[t] \in {"RemoveThreadLocal", "Add_lock"}

\* C19: every destructor invocation is made by the thread that holds the
\* registry mutex; once a destructor has called DeleteThreadLocal, or
\* CreateThreadLocal with a non-null destructor, its thread stays at that
\* call's lock in every later state: the sweep does not complete, the mutex
\* stays held, no other thread gets inside the registry and the registry
\* does not change.
C19_ReentrantDestructorDeadlocks ==
  /\ [](\A t \in Threads : pc[t] = "Run_loop" => mutexOwner = t)
  /\ [][\A t \in Threads :
          /\ dtorLog'[t] # dtorLog[t] => mutexOwner = t /\ mutexOwner' = t
          /\ Reentered(t) =>
               /\ pc'[t] = pc[t]
               /\ mutexOwner' = t
               /\ dtorLog'[t] = dtorLog[t]
               /\ entries' = entries
               /\ \A u \in Threads : pc'[u] \notin
                    {"Add_body", "Remove_body", "Run_loop"}]_vars

\* a destructor has called DeleteThreadLocal during a sweep, and the other
\* thread waits for the mutex in its own CreateThreadLocal
C19_Witness ==
  \E t, u \in Threads :
    /\ t # u
    /\ Reentered(t)
    /\ pc[t] = "RemoveThreadLocal"
    /\ dtorLog[t] # <<>>
    /\ pc[u] = "Add_lock"

\* the step is a destructor invocation of thread t's sweep: the sweep has read
\* the thread's slot under the key of an entry and called the entry's
\* destructor
SweepInvokes(t) == dtorLog'[t] # dtorLog[t]

\* the key of the entry thread t's sweep handles next
SweptKey(t) == entries[local[t].i + 1].key

\* C21 as stated: whatever DeleteThreadLocal calls the other threads are in,
\* an invocation made by a sweep is made for a key whose TLS index is still
\* allocated: the sweep reads no slot, and calls no destructor, of an index
\* that TlsFree has released.
C21_SweepSkipsReleasedSlots ==
  [][\A t \in Threads :
       SweepInvokes(t) => SweptKey(t) \in tlsAllocated]_vars

\* thread t's sweep has found thread_locals_ non-null and stands before
\* ASSERT(mutex_ != nullptr); MutexLocker ml(mutex_): its next step evaluates
\* and locks mutex_
SweepAtLock(t) == pc[t] = "Run_lock"

\* thread t's sweep is in its loop: its next step evaluates
\* thread_locals_->length() and, if there is one, reads the next entry
SweepInLoop(t) == pc[t] = "Run_loop"

\* C22 as stated: whatever point ThreadLocalData::Cleanup has reached, a
\* sweep that has seen the sequence non-null finds the mutex non-null and not
\* deleted when it locks it, and a sweep in its loop reads a sequence, and
\* holds a mutex, that Cleanup has not deleted.
C22_SweepNeverMeetsCleanup ==
  \A t \in Threads :
    /\ SweepAtLock(t) => mutex_ # NULL /\ mutexAlive
    /\ SweepInLoop(t) =>
         /\ thread_locals_ # NULL /\ arrayAlive
         /\ mutex_ # NULL /\ mutexAlive

====
